---- MODULE Spec2Model ----
(***************************************************************************)
(* resumable.py: a Session (Resumable) owns a list of Files, each File a   *)
(* list of Chunks; a fixed-width worker pool pulls chunk tasks from        *)
(* Resumable.next_task and runs test-then-send on each chunk; signals      *)
(* bubble from Chunk to File to Session.                                   *)
(*                                                                         *)
(* core.py is modelled from its source.  worker.py (ResumableWorkerPool)   *)
(* and util.py (CallbackMixin) are not part of the source tree at hand and *)
(* are modelled from the specification (sections 4.1, 4.4, 5 and 7).       *)
(***************************************************************************)
EXTENDS Integers, Sequences, FiniteSets, Bags

(* Bounds of the model. *)
Width == 2
MaxFiles == 2
MaxChunks == 2
MaxTotal == 3

VARIABLES
    files,        \* Resumable.files: sequence of ResumableFile records
    file_added,   \* FILE_ADDED deliveries to the Session's handler
    main,         \* position of the calling thread
    workers       \* ResumableWorkerPool.workers: a bag of worker threads,
                  \* each [pc: its position, cur: the chunk <<file, index>>
                  \* whose task it holds]

vars == <<files, file_added, main, workers>>

\* What the server may answer to a probe and to an upload.
GetStatuses == {200, 404}
PostStatuses == {200, 500}

None == <<0, 0>>

--------------------------------------------------------------------------
(* Chunk, File *)

\* ResumableChunk.__init__: a fresh chunk is QUEUED.  The other fields
\* observe the run: provider hand-outs, requests issued, the probe's status,
\* whether the POST raised, signals sent and signals the Session received.
ResumableChunk ==
    [state |-> "QUEUED", tasks |-> 0, gets |-> 0, probe |-> 0,
     posts |-> 0, failed |-> FALSE, signals |-> 0, session_got |-> 0]

\* ResumableFile.__init__: one chunk per source chunk, each proxying to the
\* file and carrying handle_chunk_completion; not yet proxied to a Session.
ResumableFile(n) ==
    [chunks |-> [i \in 1..n |-> ResumableChunk],
     proxied |-> FALSE, closes |-> 0, completed_signals |-> 0,
     session_got |-> 0]

\* completed that is false for a file without chunks.
completed_nonempty(file) ==
    /\ Len(file.chunks) >= 1
    /\ \A i \in 1..Len(file.chunks) : file.chunks[i].state = "DONE"

\* ResumableFile.completed
completed(file) ==
    \A i \in 1..Len(file.chunks) : file.chunks[i].state = "DONE"

\* CallbackMixin.send_signal on a File: its proxy parents get the signal;
\* the Session is one of them once add_file has called proxy_signals_to.
SessionDeliveries(file) == IF file.proxied THEN 1 ELSE 0

\* handle_chunk_completion that closes the file whether or not it is
\* completed.
handle_chunk_completion_always_closes(file) ==
    IF completed(file)
    THEN [file EXCEPT !.completed_signals = @ + 1,
                      !.session_got = @ + SessionDeliveries(file),
                      !.closes = @ + 1]
    ELSE [file EXCEPT !.closes = @ + 1]

\* ResumableFile.handle_chunk_completion: FILE_COMPLETED and close when
\* every chunk is DONE.
handle_chunk_completion(file) ==
    IF completed(file)
    THEN [file EXCEPT !.completed_signals = @ + 1,
                      !.session_got = @ + SessionDeliveries(file),
                      !.closes = @ + 1]
    ELSE file

\* test that takes any status for a hit.
test_any_status(chunk, status) ==
    [chunk EXCEPT !.gets = @ + 1, !.probe = status, !.state = "DONE"]

\* ResumableChunk.test: a 200 probe marks the chunk DONE.
test(chunk, status) ==
    IF status = 200
    THEN [chunk EXCEPT !.gets = @ + 1, !.probe = status, !.state = "DONE"]
    ELSE [chunk EXCEPT !.gets = @ + 1, !.probe = status]

\* send_if_not_done with its state check inverted.
send_if_done(chunk) == chunk.state = "DONE"

\* send_if_not_done without its state check.
send_unconditionally(chunk) == TRUE

\* ResumableChunk.send_if_not_done: whether send is called.
send_if_not_done(chunk) == chunk.state # "DONE"

\* ResumableChunk.send up to the POST being issued.
send_request(chunk) ==
    [chunk EXCEPT !.state = "UPLOADING", !.posts = @ + 1]

\* send with the state assignment ahead of raise_for_status.
send_response_done_first(chunk, status) ==
    IF status >= 400
    THEN [chunk EXCEPT !.state = "DONE", !.failed = TRUE]
    ELSE [chunk EXCEPT !.state = "DONE"]

\* ResumableChunk.send from the POST's response on: raise_for_status raises
\* on a 4xx/5xx status, otherwise the chunk is DONE.
send_response(chunk, status) ==
    IF status >= 400
    THEN [chunk EXCEPT !.failed = TRUE]
    ELSE [chunk EXCEPT !.state = "DONE"]

\* create_task without its state assignment.
create_task_left_queued(chunk) == [chunk EXCEPT !.tasks = @ + 1]

\* ResumableChunk.create_task: the chunk is POPPED before the task returns.
create_task(chunk) ==
    [chunk EXCEPT !.state = "POPPED", !.tasks = @ + 1]

--------------------------------------------------------------------------
(* Session *)

\* Resumable.chunks: files in insertion order, chunks in index order.
RECURSIVE chunks(_)
chunks(fs) ==
    IF fs = <<>> THEN <<>>
    ELSE chunks(SubSeq(fs, 1, Len(fs) - 1)) \o
         [c \in 1..Len(fs[Len(fs)].chunks) |-> <<Len(fs), c>>]

Min(S) == CHOOSE x \in S : \A y \in S : x <= y

Max(S) == CHOOSE x \in S : \A y \in S : x >= y

\* next_task without its return: the loop goes on, creates a task for every
\* QUEUED chunk and the last one is returned.
next_task_without_return(fs) ==
    LET cs == chunks(fs)
        hits == {i \in 1..Len(cs) :
                    fs[cs[i][1]].chunks[cs[i][2]].state = "QUEUED"}
    IN IF hits = {}
       THEN [task |-> None, files |-> fs]
       ELSE [task |-> cs[Max(hits)],
             files |-> [f \in 1..Len(fs) |->
                 [fs[f] EXCEPT !.chunks = [c \in 1..Len(fs[f].chunks) |->
                     IF fs[f].chunks[c].state = "QUEUED"
                     THEN create_task(fs[f].chunks[c])
                     ELSE fs[f].chunks[c]]]]]

\* next_task scanning the chunks from the last to the first.
next_task_last_queued(fs) ==
    LET cs == chunks(fs)
        hits == {i \in 1..Len(cs) :
                    fs[cs[i][1]].chunks[cs[i][2]].state = "QUEUED"}
    IN IF hits = {}
       THEN [task |-> None, files |-> fs]
       ELSE LET t == cs[Max(hits)]
            IN [task |-> t,
                files |-> [fs EXCEPT ![t[1]].chunks[t[2]] = create_task(@)]]

\* Resumable.next_task: the task of the first QUEUED chunk, created by
\* create_task, or None.
next_task(fs) ==
    LET cs == chunks(fs)
        hits == {i \in 1..Len(cs) :
                    fs[cs[i][1]].chunks[cs[i][2]].state = "QUEUED"}
    IN IF hits = {}
       THEN [task |-> None, files |-> fs]
       ELSE LET t == cs[Min(hits)]
            IN [task |-> t,
                files |-> [fs EXCEPT ![t[1]].chunks[t[2]] = create_task(@)]]

TotalChunks(fs) == Len(chunks(fs))

\* add_file with proxy_signals_to ahead of the append.
AddFile_proxy_first ==
    /\ main = "ready"
    /\ Len(files) < MaxFiles
    /\ \E n \in 0..MaxChunks :
          /\ TotalChunks(files) + n <= MaxTotal
          /\ files' = Append(files, [ResumableFile(n) EXCEPT !.proxied = TRUE])
    /\ main' = "appended"
    /\ UNCHANGED <<file_added, workers>>

\* Resumable.add_file, lines 42-44: the file is built and appended.
AddFile ==
    /\ main = "ready"
    /\ Len(files) < MaxFiles
    /\ \E n \in 0..MaxChunks :
          /\ TotalChunks(files) + n <= MaxTotal
          /\ files' = Append(files, ResumableFile(n))
    /\ main' = "appended"
    /\ UNCHANGED <<file_added, workers>>

\* Resumable.add_file, line 45: FILE_ADDED goes to the Session's handlers.
AddFileSignal ==
    /\ main = "appended"
    /\ file_added' = file_added + 1
    /\ main' = "signalled"
    /\ UNCHANGED <<files, workers>>

\* Resumable.add_file, line 46: from now on the file proxies to the Session.
AddFileProxy ==
    /\ main = "signalled"
    /\ files' = [files EXCEPT ![Len(files)].proxied = TRUE]
    /\ main' = "ready"
    /\ UNCHANGED <<file_added, workers>>

\* Resumable.wait_until_complete: the call of worker_pool.join.
WaitUntilComplete ==
    /\ main = "ready"
    /\ main' = "joining"
    /\ UNCHANGED <<files, file_added, workers>>

\* join that waits for every worker to go idle and never counts a worker
\* that an error terminated.
JoinReturnWhenAllIdle ==
    /\ main = "joining"
    /\ \A w \in BagToSet(workers) : w.pc = "exited"
    /\ main' = "joined"
    /\ UNCHANGED <<files, file_added, workers>>

\* ResumableWorkerPool.join returns: every worker has left its loop, after
\* finding no task or terminated by the error that escaped its task.
JoinReturn ==
    /\ main = "joining"
    /\ \A w \in BagToSet(workers) : w.pc \in {"exited", "dead"}
    /\ main' = "joined"
    /\ UNCHANGED <<files, file_added, workers>>

\* Resumable.close: every file is closed.
Close ==
    /\ main = "joined"
    /\ files' = [f \in 1..Len(files) |-> [files[f] EXCEPT !.closes = @ + 1]]
    /\ main' = "closed"
    /\ UNCHANGED <<file_added, workers>>

--------------------------------------------------------------------------
(* Worker pool *)

Polling == [pc |-> "poll", cur |-> None]

\* The pool after worker w has moved to position p holding chunk c.
Moved(w, p, c) ==
    (workers (-) SetToBag({w})) (+) SetToBag({[pc |-> p, cur |-> c]})

\* Worker loop: one call of the provider, made holding the pool's lock (so
\* calls are serialized).  With no task the worker sleeps and retries, or
\* leaves its loop once join has been requested.
Provide(w) ==
    /\ w.pc = "poll"
    /\ LET r == next_task(files)
       IN /\ files' = r.files
          /\ workers' = Moved(w, IF r.task # None THEN "test"
                                 ELSE IF main = "joining" THEN "exited"
                                 ELSE "poll", r.task)
    /\ UNCHANGED <<file_added, main>>

Chunk(w) == files[w.cur[1]].chunks[w.cur[2]]

\* The files with the chunk of worker w replaced by c.
WithChunk(w, c) == [files EXCEPT ![w.cur[1]].chunks[w.cur[2]] = c]

\* task, line 183: send_if_not_done(session), up to the POST being issued.
SendIfNotDone(chunk) ==
    IF send_if_not_done(chunk)
    THEN [chunk |-> send_request(chunk), pc |-> "post"]
    ELSE [chunk |-> chunk, pc |-> "poll"]

\* A worker whose task has ended holds no chunk.
Held(w, p) == IF p \in {"poll", "dead"} THEN None ELSE w.cur

\* task, line 182: test(session).  On 200 the chunk is DONE and the signal
\* is sent next; otherwise test returns and send_if_not_done runs.
Test(w) ==
    /\ w.pc = "test"
    /\ \E status \in GetStatuses :
          LET c == test(Chunk(w), status)
              r == IF status = 200 THEN [chunk |-> c, pc |-> "handle"]
                   ELSE SendIfNotDone(c)
          IN /\ files' = WithChunk(w, r.chunk)
             /\ workers' = Moved(w, r.pc, Held(w, r.pc))
    /\ UNCHANGED <<file_added, main>>

\* send_signal(CHUNK_COMPLETED), first half: the chunk's own handler,
\* ResumableFile.handle_chunk_completion.
Handle(w) ==
    /\ w.pc = "handle"
    /\ LET emitted == WithChunk(w, [Chunk(w) EXCEPT !.signals = @ + 1])
       IN files' = [emitted EXCEPT ![w.cur[1]] = handle_chunk_completion(@)]
    /\ workers' = Moved(w, "proxy", w.cur)
    /\ UNCHANGED <<file_added, main>>

\* send_signal(CHUNK_COMPLETED), second half: the proxy parents, the File
\* and through it the Session.  Then the caller continues: test returns
\* into send_if_not_done, send returns and the task ends.
Proxy(w) ==
    /\ w.pc = "proxy"
    /\ LET c == [Chunk(w) EXCEPT !.session_got =
                                     @ + SessionDeliveries(files[w.cur[1]])]
           r == IF c.posts = 0 THEN SendIfNotDone(c)
                ELSE [chunk |-> c, pc |-> "poll"]
       IN /\ files' = WithChunk(w, r.chunk)
          /\ workers' = Moved(w, r.pc, Held(w, r.pc))
    /\ UNCHANGED <<file_added, main>>

\* send: the POST's response.  A raised error escapes the task and the
\* worker that ran it.
Post(w) ==
    /\ w.pc = "post"
    /\ \E status \in PostStatuses :
          LET c == send_response(Chunk(w), status)
              p == IF c.failed THEN "dead" ELSE "handle"
          IN /\ files' = WithChunk(w, c)
             /\ workers' = Moved(w, p, Held(w, p))
    /\ UNCHANGED <<file_added, main>>

Worker(w) ==
    \/ Provide(w)
    \/ Test(w)
    \/ Handle(w)
    \/ Proxy(w)
    \/ Post(w)

Pool == \E w \in BagToSet(workers) : Worker(w)

Caller ==
    \/ AddFile
    \/ AddFileSignal
    \/ AddFileProxy
    \/ WaitUntilComplete
    \/ JoinReturn
    \/ Close

--------------------------------------------------------------------------

\* Resumable.__init__: no files, the pool's workers started and polling.
Init ==
    /\ files = <<>>
    /\ file_added = 0
    /\ main = "ready"
    /\ workers = [w \in {Polling} |-> Width]

Next ==
    \/ Caller
    \/ Pool

Spec == Init /\ [][Next]_vars

\* Threads are scheduled fairly: the caller keeps running, and so does
\* the pool while any of its workers can take a step.
FairSpec == Spec /\ WF_vars(Caller) /\ WF_vars(Pool)

--------------------------------------------------------------------------
(* Properties *)

Files == 1..Len(files)
AllChunks == UNION {{<<f, c>> : c \in 1..Len(files[f].chunks)} : f \in Files}
ChunkAt(p) == files[p[1]].chunks[p[2]]
Running == BagToSet(workers)

\* The workers that are in the middle of the task of chunk p.
Holders(p) == {w \in Running : w.cur = p}

\* C1: every File emits FILE_COMPLETED at most once, and exactly once when
\* all of its chunks (at least one) are DONE and their completion handlers
\* have run.
C1_FileCompletedOnce ==
    \A f \in Files :
        /\ files[f].completed_signals <= 1
        /\ ( /\ Len(files[f].chunks) >= 1
             /\ completed(files[f])
             /\ \A w \in Running : w.pc = "handle" => w.cur[1] # f )
           => files[f].completed_signals = 1

\* C2: the provider hands out each Chunk at most once: a QUEUED chunk has
\* never been handed out, a chunk that has left QUEUED was handed out exactly
\* once, and no two workers hold the task of the same chunk.
C2_OneTaskPerChunk ==
    /\ \A p \in AllChunks :
          ChunkAt(p).tasks = IF ChunkAt(p).state = "QUEUED" THEN 0 ELSE 1
    /\ \A w \in Running :
          w.cur # None => CopiesIn(w, workers) = 1 /\ Holders(w.cur) = {w}

\* Two workers hold the tasks of two chunks of one file at the same time.
C2_Witness ==
    \E v, w \in Running :
        /\ v.cur # None /\ w.cur # None /\ v.cur # w.cur
        /\ v.cur[1] = w.cur[1]
        /\ ChunkAt(v.cur).tasks = 1 /\ ChunkAt(w.cur).tasks = 1

Edges == {<<"QUEUED", "POPPED">>, <<"POPPED", "UPLOADING">>,
          <<"UPLOADING", "DONE">>, <<"POPPED", "DONE">>}

\* C3: every change of a chunk's state follows one of the edges
\* QUEUED->POPPED, POPPED->UPLOADING, UPLOADING->DONE, POPPED->DONE; so no
\* chunk moves backward and a DONE chunk never changes.
C3_PermittedEdges ==
    [][\A p \in AllChunks :
          files'[p[1]].chunks[p[2]].state # ChunkAt(p).state
             => <<ChunkAt(p).state, files'[p[1]].chunks[p[2]].state>> \in Edges
      ]_vars

\* One chunk is DONE by upload and another by a 200 probe.
C3_Witness ==
    \E p, q \in AllChunks :
        /\ ChunkAt(p).state = "DONE" /\ ChunkAt(p).posts = 1
        /\ ChunkAt(q).state = "DONE" /\ ChunkAt(q).posts = 0

\* C4: every CHUNK_COMPLETED a chunk has sent, once its emission is over,
\* and every FILE_COMPLETED a file has sent has reached the Session's
\* handler.
C4_SignalsReachSession ==
    /\ \A p \in AllChunks :
          (\A w \in Holders(p) : w.pc # "proxy")
             => ChunkAt(p).session_got = ChunkAt(p).signals
    /\ \A f \in Files : files[f].session_got = files[f].completed_signals

\* C5: the Session's handler receives a CHUNK_COMPLETED of a file only
\* while it has received no FILE_COMPLETED of that file.
C5_FileCompletedLast ==
    [][\A p \in AllChunks :
          files'[p[1]].chunks[p[2]].session_got > ChunkAt(p).session_got
             => files[p[1]].session_got = 0 /\ files'[p[1]].session_got = 0
      ]_vars

\* C6: a chunk whose probe answered 200 went from POPPED straight to DONE,
\* is never posted, and has sent CHUNK_COMPLETED once (as soon as the
\* worker is past the state change).
C6_ProbeHit ==
    /\ [](\A p \in AllChunks :
            ChunkAt(p).probe = 200 =>
               /\ ChunkAt(p).state = "DONE"
               /\ ChunkAt(p).posts = 0
               /\ ChunkAt(p).signals =
                     IF \E w \in Holders(p) : w.pc = "handle" THEN 0 ELSE 1)
    /\ [][\A p \in AllChunks :
            (files'[p[1]].chunks[p[2]].probe = 200 /\ ChunkAt(p).probe # 200)
               => /\ ChunkAt(p).state = "POPPED"
                  /\ files'[p[1]].chunks[p[2]].state = "DONE"]_vars

\* A chunk with a 200 probe whose task has ended.
C6_Witness ==
    \E p \in AllChunks :
        /\ ChunkAt(p).probe = 200 /\ ChunkAt(p).signals = 1
        /\ Holders(p) = {}

\* The pool has no worker left in its loop.
PoolOver == \A w \in Running : w.pc \in {"exited", "dead"}

AnyFailed == \E p \in AllChunks : ChunkAt(p).failed

InFlight ==
    {p \in AllChunks : ChunkAt(p).state \in {"POPPED", "UPLOADING"}
                          /\ ~ChunkAt(p).failed}
InFlightPosts ==
    {p \in AllChunks : ChunkAt(p).state = "UPLOADING" /\ ~ChunkAt(p).failed}

\* C10: at most Width chunks are POPPED or UPLOADING with an unfinished
\* task, at most Width POSTs are in flight, and every one of them is held by
\* a worker of the pool.
C10_AtMostWidthInFlight ==
    /\ Cardinality(InFlight) <= Width
    /\ Cardinality(InFlightPosts) <= Width
    /\ \A p \in InFlight : Holders(p) # {}

\* Width POSTs are in flight at once.
C10_Witness == Cardinality(InFlightPosts) = Width

--------------------------------------------------------------------------

\* Chunk q comes before chunk p in the order of Resumable.chunks.
Before(q, p) == q[1] < p[1] \/ (q[1] = p[1] /\ q[2] < p[2])

Queued == {p \in AllChunks : ChunkAt(p).state = "QUEUED"}

\* What a call of the provider would return now: no task exactly when no
\* chunk is QUEUED, otherwise the task of the first QUEUED chunk.
ProviderAnswer ==
    LET r == next_task(files)
    IN /\ r.task = None <=> Queued = {}
       /\ r.task # None =>
             /\ r.task \in Queued
             /\ \A q \in Queued : q # r.task => Before(r.task, q)
             /\ r.files[r.task[1]].chunks[r.task[2]].state = "POPPED"

\* C11: a call of the provider returns the task of the first QUEUED chunk
\* in the order (file, then chunk index) and no task exactly when no chunk
\* is QUEUED; a chunk leaves QUEUED only when every chunk before it has, one
\* chunk per call, into the hands of a worker; a worker leaves its loop only
\* when no chunk is QUEUED.
C11_DispatchOrder ==
    /\ [](ProviderAnswer)
    /\ [](\A p \in AllChunks \ Queued : \A q \in Queued : Before(p, q))
    /\ [][ /\ \A p \in Queued :
                files'[p[1]].chunks[p[2]].state # "QUEUED" =>
                   /\ \A q \in Queued : q # p =>
                         /\ Before(p, q)
                         /\ files'[q[1]].chunks[q[2]].state = "QUEUED"
                   /\ CopiesIn([pc |-> "test", cur |-> p], workers') = 1
                   /\ CopiesIn(Polling, workers') = CopiesIn(Polling, workers) - 1
           /\ CopiesIn(Polling, workers') < CopiesIn(Polling, workers) =>
                 \/ \E p \in Queued : files'[p[1]].chunks[p[2]].state = "POPPED"
                 \/ Queued = {} /\ main = "joining"
         ]_vars

\* The chunk of the first file and the first chunk of the second file are
\* handed out, the second chunk of the second file is still QUEUED.
C11_Witness ==
    /\ Len(files) = 2
    /\ AllChunks = {<<1, 1>>, <<2, 1>>, <<2, 2>>}
    /\ Queued = {<<2, 2>>}
    /\ ChunkAt(<<2, 1>>).state = "POPPED"

\* C12: the source of every file receives at most one close call at any
\* time, and exactly one once the Session has been joined and closed.
C12_ClosedExactlyOnce ==
    /\ \A f \in Files : files[f].closes <= 1
    /\ main = "closed" => \A f \in Files : files[f].closes = 1

\* File f has been added and has at least one chunk.
HasChunks(f) == f <= Len(files) /\ Len(files[f].chunks) >= 1

\* Chunk c of file f exists.
HasChunk(f, c) == f <= Len(files) /\ c <= Len(files[f].chunks)

\* C13: on a run where no POST ever fails, every chunk of every added file
\* reaches DONE, every file with at least one chunk sends FILE_COMPLETED,
\* and a call of wait_until_complete returns.
C13_SuccessPathLiveness ==
    ([]~AnyFailed) =>
        /\ \A f \in 1..MaxFiles : \A c \in 1..MaxChunks :
              HasChunk(f, c)
                 ~> (HasChunk(f, c) /\ files[f].chunks[c].state = "DONE")
        /\ \A f \in 1..MaxFiles :
              HasChunks(f)
                 ~> (HasChunks(f) /\ files[f].completed_signals >= 1)
        /\ (main = "joining") ~> (main = "joined")

\* join has returned with two files completed and no POST failed, one chunk
\* DONE by upload and one by its probe.
C13_Witness ==
    /\ main = "joined"
    /\ ~AnyFailed
    /\ Len(files) = 2
    /\ \A f \in Files :
          Len(files[f].chunks) >= 1 /\ files[f].completed_signals >= 1
    /\ \A p \in AllChunks : ChunkAt(p).state = "DONE"
    /\ \E p, q \in AllChunks : ChunkAt(p).posts = 1 /\ ChunkAt(q).posts = 0

\* The worker that made chunk p DONE has yet to send its CHUNK_COMPLETED.
Emitting(p) == \E w \in Holders(p) : w.pc = "handle"

ProbeMiss(p) ==
    /\ ChunkAt(p).gets = 0
    /\ files'[p[1]].chunks[p[2]].gets = 1
    /\ files'[p[1]].chunks[p[2]].probe # 200

\* C15: a probe answered with a status other than 200 changes nothing of
\* the chunk (it was POPPED and test leaves it so, no signal is sent, no
\* error raised), and the same worker goes on to issue the chunk's POST.
C15_ProbeMissIsNoOp ==
    [][\A p \in AllChunks :
          ProbeMiss(p) =>
             LET after == test(ChunkAt(p), files'[p[1]].chunks[p[2]].probe)
             IN /\ ChunkAt(p).state = "POPPED"
                /\ after = [ChunkAt(p) EXCEPT !.gets = 1, !.probe = after.probe]
                /\ files'[p[1]].chunks[p[2]] = send_request(after)
                /\ ~files'[p[1]].chunks[p[2]].failed
                /\ files'[p[1]] = [files[p[1]] EXCEPT !.chunks[p[2]] = send_request(after)]
                /\ CopiesIn([pc |-> "test", cur |-> p], workers) = 1
                /\ CopiesIn([pc |-> "post", cur |-> p], workers') = 1
      ]_vars

\* A chunk whose probe answered 404 and whose POST has been issued.
C15_Witness ==
    \E p \in AllChunks :
        /\ ChunkAt(p).probe = 404
        /\ ChunkAt(p).state = "UPLOADING"
        /\ ChunkAt(p).posts = 1
        /\ \E w \in Holders(p) : w.pc = "post"

\* C16: every chunk is probed at most once and posted at most once, a POST
\* is issued only for a chunk whose probe has been answered, and the worker
\* that issues the POST is the one worker that held the chunk's task at the
\* probe.
C16_TestThenSend ==
    /\ [](\A p \in AllChunks :
            /\ ChunkAt(p).gets <= 1
            /\ ChunkAt(p).posts <= 1
            /\ ChunkAt(p).posts = 1 =>
                  ChunkAt(p).gets = 1 /\ ChunkAt(p).probe \in GetStatuses
            /\ ChunkAt(p).gets = 0 =>
                  \A w \in Holders(p) : w.pc = "test"
            /\ Cardinality(Holders(p)) <= 1
            /\ \A w \in Holders(p) : CopiesIn(w, workers) = 1)
    /\ [][\A p \in AllChunks :
            files'[p[1]].chunks[p[2]].posts > ChunkAt(p).posts =>
               /\ CopiesIn([pc |-> "test", cur |-> p], workers) = 1
               /\ CopiesIn([pc |-> "post", cur |-> p], workers') = 1
               /\ workers' = Moved([pc |-> "test", cur |-> p], "post", p)
               /\ files'[p[1]].chunks[p[2]].gets = 1
         ]_vars

\* Two chunks of one file, each probed once and posted once, their POSTs
\* awaiting the response at two workers.
C16_Witness ==
    \E v, w \in Running :
        /\ v.pc = "post" /\ w.pc = "post" /\ v.cur # w.cur
        /\ v.cur[1] = w.cur[1]
        /\ ChunkAt(v.cur).gets = 1 /\ ChunkAt(v.cur).posts = 1
        /\ ChunkAt(w.cur).gets = 1 /\ ChunkAt(w.cur).posts = 1

\* The files whose source yielded no chunk.
EmptyFiles == {f \in Files : Len(files[f].chunks) = 0}

\* C17: a file without chunks is completed from its construction on, no
\* worker ever holds a task of it, no handler of it ever runs, and it never
\* sends FILE_COMPLETED; only Resumable.close closes it.
C17_EmptyFileSilent ==
    \A f \in EmptyFiles :
        /\ completed(files[f])
        /\ \A w \in Running : w.cur[1] # f
        /\ files[f].completed_signals = 0
        /\ files[f].session_got = 0
        /\ files[f].closes = IF main = "closed" THEN 1 ELSE 0

\* The Session is joined and closed with a file without chunks and a file
\* that completed.
C17_Witness ==
    /\ main = "closed"
    /\ EmptyFiles # {}
    /\ \E f \in Files : Len(files[f].chunks) >= 1 /\ files[f].completed_signals = 1

\* The files whose source receives a close call in this step.
ClosedNow == {f \in Files : files'[f].closes > files[f].closes}

SessionHeardOf(f) ==
    \/ files[f].session_got > 0
    \/ \E c \in 1..Len(files[f].chunks) : files[f].chunks[c].session_got > 0

\* C19: the Session's handler has received one FILE_ADDED per add_file call
\* (the call in progress sends its own between the append and the proxy
\* wiring), FILE_ADDED is sent only by add_file, and the handler has
\* received a CHUNK_COMPLETED or FILE_COMPLETED of a file only after the
\* FILE_ADDED of that file's add_file call.
C19_FileAddedFirst ==
    /\ [](/\ file_added = Len(files) - (IF main = "appended" THEN 1 ELSE 0)
          /\ \A f \in Files :
                SessionHeardOf(f) => file_added >= f)
    /\ [][file_added' # file_added =>
             /\ file_added' = file_added + 1
             /\ main = "appended" /\ main' = "signalled"
             /\ files' = files
             /\ ~SessionHeardOf(Len(files))
         ]_vars

\* Both files are added and the Session has received a CHUNK_COMPLETED and
\* the FILE_COMPLETED of the second; another CHUNK_COMPLETED of it, sent
\* while add_file was in progress, was not received.
C19_Witness ==
    /\ Len(files) = 2
    /\ file_added = 2
    /\ files[2].session_got = 1
    /\ \E c \in 1..Len(files[2].chunks) :
          /\ files[2].chunks[c].session_got = 1
    /\ \E c \in 1..Len(files[2].chunks) :
          /\ files[2].chunks[c].signals = 1
          /\ files[2].chunks[c].session_got = 0

====
